---- MODULE Spec2Model ----
\* Model of imageviewer/streamlit_app.py: the Streamlit script that pages
\* through the image blobs of an Azure container.  One render pass (one
\* top-to-bottom run of the script) is one action; st.session_state is the
\* state that survives between passes.
EXTENDS Integers, Sequences, FiniteSets, TLC

\* ------------------------------------------------------------------ bounds
\* Number of blobs in a container (all of them images), and the number of
\* them whose name starts with the non-empty prefix of the model.
TotalBlobs == 48
PrefixBlobs == 24
\* The Next button is not pressed once the token stack holds this many entries.
MaxStack == 4
\* The query inputs are edited at most this many times in one session.
MaxEdits == 1
\* The longest page the extension filter is tried on by itself.
MaxPageLen == 3

\* --------------------------------------------------------- program constants
\* st.number_input("Images per page", min_value=3, max_value=60, value=12, step=3)
DefaultPageSize == 12
OtherPageSize == 2 * DefaultPageSize

\* ------------------------------------------------------------------ values
\* Python None as a continuation token.  A token issued by the service is
\* [sig, pos]: the query it was issued under and the number of blobs of the
\* listing that precede the page it resumes at.
NoSig == <<>>
Null == [sig |-> NoSig, pos |-> 0]

\* The values the sidebar inputs take in the model.
Widget(c, u, s, k, p, n) ==
    [container_name |-> c, account_url |-> u, sas_token |-> s,
     connection_string |-> k, prefix |-> p, page_size |-> n]

Base == Widget("c1", "https://acct", "", "", "", DefaultPageSize)

Configs ==
    { Base,
      [Base EXCEPT !.container_name = "c2"],
      [Base EXCEPT !.container_name = ""],
      [Base EXCEPT !.account_url = ""],
      [Base EXCEPT !.container_name = "", !.account_url = ""],
      [Base EXCEPT !.sas_token = "sv=1"],
      [Base EXCEPT !.sas_token = "sv=2"],
      [Base EXCEPT !.connection_string = "AccountKey=k"],
      [Base EXCEPT !.prefix = "img"],
      [Base EXCEPT !.page_size = OtherPageSize] }

Fields ==
    {"container_name", "account_url", "sas_token", "connection_string",
     "prefix", "page_size"}

\* The user edits at most one sidebar input between two passes.
Edits(w) == { v \in Configs : Cardinality({ f \in Fields : v[f] # w[f] }) <= 1 }

\* ------------------------------------------------------------------- state
VARIABLES
    continuation,      \* st.session_state.continuation
    token_stack,       \* st.session_state.token_stack ([] until first created)
    last_query_sig,    \* st.session_state.last_query_sig (NoSig models "")
    widgets,           \* the values of the sidebar inputs
    nav_shown,         \* the Prev/Next buttons are on the page
    edits,             \* how many times the inputs were edited
    \* What the last render pass did:
    click,             \* the button whose click started it ("none": no button)
    outcome,           \* where it ended
    sig_changed,       \* it saw query_sig differ from last_query_sig
    pre_continuation,  \* continuation when it started
    pre_stack,         \* token_stack when it started
    chk_continuation,  \* continuation right after the query_sig check
    chk_stack,         \* token_stack right after the query_sig check
    used_token,        \* continuation_token it passed to list_image_blobs_page
    next_token,        \* next_token that call returned
    fetch_failed,      \* the blobs of its page whose download raised
    grid,              \* what it put in the grid for each name of its page,
                       \* in order: "image" or "error"
    \* Where the session stands in a walk forward and back from its start:
    phase,             \* "start", then "fwd0" after the first run, "fwd" after
                       \* Next passes only, "back1" after the first Prev pass
                       \* that follows them, "back" after further Prev passes;
                       \* "floor1" after a Prev pass that follows the first
                       \* run, "floor2" after further Prev passes; and
                       \* "other" once anything else has happened
    fwd_count,         \* in phase "fwd": how many Next passes there were
    mark_continuation, \* in phases "fwd", "back1": continuation and the length
    mark_len,          \* of token_stack when the last Next pass started
    \* The extension filter tried by itself on a page of blob names:
    filter             \* [page, names, done]: the page, the names kept, and
                       \* whether the filter has run

vars ==
    <<continuation, token_stack, last_query_sig, widgets, nav_shown, edits,
      click, outcome, sig_changed, pre_continuation, pre_stack,
      chk_continuation, chk_stack, used_token, next_token, fetch_failed, grid,
      phase, fwd_count, mark_continuation, mark_len, filter>>

\* ------------------------------------------------------- steps of the script
Session(c, st, q) == [continuation |-> c, token_stack |-> st, last_query_sig |-> q]

\* if st.button("Reset paging"): st.session_state.continuation = None
ResetPaging(s, clk) ==
    IF clk = "reset" THEN [s EXCEPT !.continuation = Null] ELSE s

\* query_sig = f"{container_name}|{account_url}|{bool(sas_token)}|..."
QuerySig(w) ==
    <<w.container_name, w.account_url, w.sas_token # "",
      w.connection_string # "", w.prefix, w.page_size>>

\* The check with the reset of continuation left out.
CheckQuerySigKeepsToken(s, w) ==
    IF s.last_query_sig # QuerySig(w)
    THEN [s EXCEPT !.last_query_sig = QuerySig(w)]
    ELSE s

\* if st.session_state.last_query_sig != query_sig: ...
CheckQuerySig(s, w) ==
    IF s.last_query_sig # QuerySig(w)
    THEN [s EXCEPT !.continuation = Null, !.last_query_sig = QuerySig(w)]
    ELSE s

\* The selection falling back to an anonymous client instead of raising.
GetContainerClientAnonymous(w) ==
    IF w.connection_string # "" THEN "connection_string"
    ELSE IF w.account_url # "" /\ w.sas_token # "" THEN "sas"
    ELSE "public"

\* get_container_client(container_name, connection_string or None,
\*                      account_url or None, sas_token or None):
\* the authentication mode it builds the client with, or the ValueError.
GetContainerClient(w) ==
    IF w.connection_string # "" THEN "connection_string"
    ELSE IF w.account_url # "" /\ w.sas_token # "" THEN "sas"
    ELSE IF w.account_url # "" /\ w.sas_token = "" THEN "public"
    ELSE "ValueError"

\* The push made only for a token that is not None.
PushNextUnlessNone(s, clk) ==
    IF clk = "next" /\ s.continuation # Null
    THEN [s EXCEPT !.token_stack = Append(@, s.continuation)]
    ELSE s

\* if next_click: st.session_state.token_stack.append(continuation)
PushNext(s, clk) ==
    IF clk = "next"
    THEN [s EXCEPT !.token_stack = Append(@, s.continuation)]
    ELSE s

\* list.pop(): the last element and the rest, or IndexError on an empty list.
ListPop(l) ==
    IF l = <<>>
    THEN [raised |-> TRUE, value |-> Null, rest |-> l]
    ELSE [raised |-> FALSE, value |-> l[Len(l)], rest |-> SubSeq(l, 1, Len(l) - 1)]

\* The pops without the test that the stack holds something.
PopPrevUnguarded(s, clk) ==
    IF clk = "prev"
    THEN LET first == ListPop(s.token_stack)
             second == ListPop(first.rest)
         IN  IF first.raised
             THEN [s |-> s, raised |-> TRUE]
             ELSE IF first.rest # <<>>
             THEN [s |-> [s EXCEPT !.token_stack = second.rest,
                                   !.continuation = second.value],
                   raised |-> second.raised]
             ELSE [s |-> [s EXCEPT !.token_stack = first.rest,
                                   !.continuation = Null],
                   raised |-> FALSE]
    ELSE [s |-> s, raised |-> FALSE]

\* The pops with continuation left alone when the second pop has nothing
\* to take.
PopPrevKeepsToken(s, clk) ==
    IF clk = "prev" /\ s.token_stack # <<>>
    THEN LET first == ListPop(s.token_stack)
             second == ListPop(first.rest)
         IN  IF first.rest # <<>>
             THEN [s |-> [s EXCEPT !.token_stack = second.rest,
                                   !.continuation = second.value],
                   raised |-> second.raised]
             ELSE [s |-> [s EXCEPT !.token_stack = first.rest],
                   raised |-> FALSE]
    ELSE [s |-> s, raised |-> FALSE]

\* if prev_click and st.session_state.token_stack:
\*     _ = token_stack.pop()
\*     continuation = token_stack.pop() if token_stack else None
\* The session state after it, and whether a pop raised.
PopPrev(s, clk) ==
    IF clk = "prev" /\ s.token_stack # <<>>
    THEN LET first == ListPop(s.token_stack)
             second == ListPop(first.rest)
         IN  IF first.raised
             THEN [s |-> s, raised |-> TRUE]
             ELSE IF first.rest # <<>>
             THEN [s |-> [s EXCEPT !.token_stack = second.rest,
                                   !.continuation = second.value],
                   raised |-> second.raised]
             ELSE [s |-> [s EXCEPT !.token_stack = first.rest,
                                   !.continuation = Null],
                   raised |-> FALSE]
    ELSE [s |-> s, raised |-> FALSE]

\* ------------------------------------------------------------ blob names
\* A blob name is the sequence of its characters.
\* IMAGE_EXTS = (".jpg", ".jpeg", ".png", ".gif", ".webp", ".bmp", ".tiff")
IMAGE_EXTS ==
    { <<".", "j", "p", "g">>, <<".", "j", "p", "e", "g">>, <<".", "p", "n", "g">>,
      <<".", "g", "i", "f">>, <<".", "w", "e", "b", "p">>, <<".", "b", "m", "p">>,
      <<".", "t", "i", "f", "f">> }

\* str.lower() on one character, for the upper-case letters names use here.
UpperToLower ==
    [c \in {"A", "B", "E", "F", "G", "H", "I", "J", "M", "N", "O", "P", "T", "W"} |->
        CASE c = "A" -> "a" [] c = "B" -> "b" [] c = "E" -> "e" [] c = "F" -> "f"
          [] c = "G" -> "g" [] c = "H" -> "h" [] c = "I" -> "i" [] c = "J" -> "j"
          [] c = "M" -> "m" [] c = "N" -> "n" [] c = "O" -> "o" [] c = "P" -> "p"
          [] c = "T" -> "t" [] c = "W" -> "w"]

LowerChar(c) == IF c \in DOMAIN UpperToLower THEN UpperToLower[c] ELSE c

\* b.name.lower()
Lower(name) == [i \in 1..Len(name) |-> LowerChar(name[i])]

\* str.endswith(suffix)
EndsWith(name, suffix) ==
    /\ Len(suffix) <= Len(name)
    /\ SubSeq(name, Len(name) - Len(suffix) + 1, Len(name)) = suffix

\* The test with the name taken as it is, not lower-cased.
NameIsImageCaseSensitive(name) == \E ext \in IMAGE_EXTS : EndsWith(name, ext)

\* b.name.lower().endswith(IMAGE_EXTS)
NameIsImage(name) == \E ext \in IMAGE_EXTS : EndsWith(Lower(name), ext)

\* names = [b.name for b in page if b.name.lower().endswith(IMAGE_EXTS)]
ImageNames(page) == SelectSeq(page, NameIsImage)

\* The extensions of the blobs of the model's containers, in turn.
BlobExts ==
    << <<".", "j", "p", "g">>, <<".", "P", "N", "G">>, <<".", "t", "x", "t">>,
       <<".", "J", "p", "e", "g">> >>

\* The name of the blob at position i of a listing: "b", the two digits of
\* i and an extension.
BlobName(i) ==
    <<"b", ToString(i \div 10), ToString(i % 10)>> \o BlobExts[(i % Len(BlobExts)) + 1]

\* The names of the blobs of a listing, by position, and the positions of
\* those the extension filter keeps.
ContainerBlobs == [i \in 1..TotalBlobs |-> BlobName(i)]

ImageBlobs == { i \in 1..TotalBlobs : NameIsImage(ContainerBlobs[i]) }

IsImageBlob(b) == b \in ImageBlobs

\* The blobs container.list_blobs(name_starts_with=prefix or None) goes over.
NumBlobs(w) == IF w.prefix = "" THEN TotalBlobs ELSE PrefixBlobs

\* by_page(continuation_token) resumes after the blobs the token covers.
StartOf(token) == IF token = Null THEN 0 ELSE token.pos

Min(a, b) == IF a <= b THEN a ELSE b

\* list_image_blobs_page(container, prefix, continuation_token, page_size):
\* one page of blobs, those among them whose name passes the extension
\* filter (a blob stands for its name, ContainerBlobs[b]), and the pager's
\* continuation token after the page, None once the listing is exhausted.
ListImageBlobsPage(w, token) ==
    LET start == StartOf(token)
        stop == Min(start + w.page_size, NumBlobs(w))
        page == [i \in 1..(IF stop > start THEN stop - start ELSE 0) |-> start + i]
    IN  [names |-> SelectSeq(page, IsImageBlob),
         next_token |-> IF start + w.page_size < NumBlobs(w)
                        THEN [sig |-> QuerySig(w), pos |-> start + w.page_size]
                        ELSE Null]

\* The update made in every pass, whatever was clicked.
CommitNextAlways(s, clk, token) == [s EXCEPT !.continuation = token]

\* The loop without the try/except around the download: the first download
\* that raises ends the run.
RenderGridNoExcept(names, failing) ==
    LET bad == { i \in 1..Len(names) : names[i] \in failing }
        upto == IF bad = {} THEN Len(names)
                ELSE (CHOOSE i \in bad : \A j \in bad : i <= j) - 1
    IN  [cells |-> [i \in 1..upto |-> "image"], raised |-> bad # {}]

\* for i, blob_name in enumerate(names):
\*     try: fetch_image_bytes(...); st.image(...)
\*     except Exception as e: st.error(...)
\* What the grid gets for each name, with the downloads of the blobs in
\* failing raising, and whether an exception leaves the loop.
RenderGrid(names, failing) ==
    [cells |-> [i \in 1..Len(names) |->
                   IF names[i] \in failing THEN "error" ELSE "image"],
     raised |-> FALSE]

\* if next_click: st.session_state.continuation = next_token
CommitNext(s, clk, token) ==
    IF clk = "next" THEN [s EXCEPT !.continuation = token] ELSE s

\* One run of the script from top to bottom with the inputs w, the button
\* clk clicked, the listing call succeeding or raising and the downloads of
\* the blobs in failing raising: where the run
\* ends, the session state it leaves and what it did on the way.  The run
\* stops (st.stop()) when container_name is empty, when get_container_client
\* raises and when the listing call raises; a pop or a grid loop that raised
\* would end it with the exception.
RenderPass(s0, w, clk, listing_ok, failing) ==
    LET s1 == ResetPaging(s0, clk)
        s2 == CheckQuerySig(s1, w)
        s3 == PushNext(s2, clk)
        pp == PopPrev(s3, clk)
        s4 == pp.s
        page == ListImageBlobsPage(w, s4.continuation)
        g == RenderGrid(page.names, failing)
        s5 == CommitNext(s4, clk, page.next_token)
        early == [chk |-> s2, used |-> Null, next |-> Null, cells |-> <<>>]
    IN  IF w.container_name = ""
        THEN early @@ [s |-> s2, outcome |-> "no_container"]
        ELSE IF GetContainerClient(w) = "ValueError"
        THEN early @@ [s |-> s2, outcome |-> "auth_error"]
        ELSE IF pp.raised
        THEN early @@ [s |-> s4, outcome |-> "exception"]
        ELSE IF ~listing_ok
        THEN [chk |-> s2, used |-> s4.continuation, next |-> Null, cells |-> <<>>,
              s |-> s4, outcome |-> "listing_error"]
        ELSE IF g.raised
        THEN [chk |-> s2, used |-> s4.continuation, next |-> page.next_token,
              cells |-> g.cells, s |-> s4, outcome |-> "exception"]
        ELSE [chk |-> s2, used |-> s4.continuation, next |-> page.next_token,
              cells |-> g.cells, s |-> s5, outcome |-> "rendered"]

\* ------------------------------------------------------------------ actions
\* On the first run prefix is "" and page_size is the default; the other
\* inputs come from the environment.
InitSession ==
    /\ continuation = Null
    /\ token_stack = <<>>
    /\ last_query_sig = NoSig
    /\ widgets \in { w \in Configs : w.prefix = "" /\ w.page_size = DefaultPageSize }
    /\ nav_shown = FALSE
    /\ edits = 0
    /\ click = "none"
    /\ outcome = "not_run"
    /\ sig_changed = FALSE
    /\ pre_continuation = Null
    /\ pre_stack = <<>>
    /\ chk_continuation = Null
    /\ chk_stack = <<>>
    /\ used_token = Null
    /\ next_token = Null
    /\ fetch_failed = {}
    /\ grid = <<>>
    /\ phase = "start"
    /\ fwd_count = 0
    /\ mark_continuation = Null
    /\ mark_len = 0

Init ==
    /\ InitSession
    /\ filter = [page |-> <<>>, names |-> <<>>, done |-> FALSE]

\* The phase after a pass: a walk is made of passes that render a page with
\* the inputs left as they were.
NextPhase(w, clk, result) ==
    LET plain == (w = widgets /\ result = "rendered")
    IN  IF phase = "start" THEN (IF plain THEN "fwd0" ELSE "other")
        ELSE IF phase \in {"fwd0", "fwd"} /\ clk = "next" /\ plain THEN "fwd"
        ELSE IF phase = "fwd" /\ clk = "prev" /\ plain THEN "back1"
        ELSE IF phase \in {"back1", "back"} /\ clk = "prev" /\ plain THEN "back"
        ELSE IF phase = "fwd0" /\ clk = "prev" /\ plain THEN "floor1"
        ELSE IF phase \in {"floor1", "floor2"} /\ clk = "prev" /\ plain THEN "floor2"
        ELSE "other"

Pass(w, clk, listing_ok, failing) ==
    LET s0 == Session(continuation, token_stack, last_query_sig)
        r == RenderPass(s0, w, clk, listing_ok, failing)
    IN  /\ continuation' = r.s.continuation
        /\ token_stack' = r.s.token_stack
        /\ last_query_sig' = r.s.last_query_sig
        /\ widgets' = w
        /\ nav_shown' = (r.outcome \notin {"no_container", "auth_error"})
        /\ edits' = IF w = widgets THEN edits ELSE edits + 1
        /\ click' = clk
        /\ outcome' = r.outcome
        /\ sig_changed' = (last_query_sig # QuerySig(w))
        /\ pre_continuation' = continuation
        /\ pre_stack' = token_stack
        /\ chk_continuation' = r.chk.continuation
        /\ chk_stack' = r.chk.token_stack
        /\ used_token' = r.used
        /\ next_token' = r.next
        /\ fetch_failed' = failing
        /\ grid' = r.cells
        /\ phase' = NextPhase(w, clk, r.outcome)
        /\ fwd_count' = IF phase' = "fwd" THEN fwd_count + 1 ELSE 0
        /\ mark_continuation' =
               IF phase' = "fwd" THEN continuation
               ELSE IF phase' = "back1" THEN mark_continuation ELSE Null
        /\ mark_len' =
               IF phase' = "fwd" THEN Len(token_stack)
               ELSE IF phase' = "back1" THEN mark_len ELSE 0
        /\ UNCHANGED filter

\* The inputs of the next pass: as they are, or with one of them edited.
NextInputs ==
    IF last_query_sig # NoSig /\ edits < MaxEdits THEN Edits(widgets) ELSE {widgets}

\* The script runs with no button clicked: the first run of the session, a
\* plain re-run, or the run an edited input triggers.
Rerun ==
    \E w \in NextInputs, ok \in BOOLEAN : Pass(w, "none", ok, {})

\* The user clicks "Reset paging" (in the sidebar once the script has run).
ClickReset ==
    /\ last_query_sig # NoSig
    /\ \E w \in NextInputs, ok \in BOOLEAN : Pass(w, "reset", ok, {})

\* The user clicks "Prev" (on the page once a run has reached the controls).
ClickPrev ==
    /\ nav_shown
    /\ \E w \in NextInputs, ok \in BOOLEAN : Pass(w, "prev", ok, {})

\* The user clicks "Next".
ClickNext ==
    /\ nav_shown
    /\ Len(token_stack) < MaxStack
    /\ \E w \in NextInputs, ok \in BOOLEAN : Pass(w, "next", ok, {})

Next == Rerun \/ ClickReset \/ ClickPrev \/ ClickNext

Spec == Init /\ [][Next]_vars

\* ------------------------------------------------- downloads that may raise
\* The same session with the sidebar inputs left as they are and a download
\* that may raise in the grid loop.

\* The downloads that raise in a pass: none, or that of the second name of
\* the page the pass lists.
Failures(clk, listing_ok) ==
    LET s0 == Session(continuation, token_stack, last_query_sig)
        r == RenderPass(s0, widgets, clk, listing_ok, {})
        names == ListImageBlobsPage(widgets, r.used).names
    IN  IF r.outcome = "rendered" /\ Len(names) >= 2 THEN {{}, {names[2]}} ELSE {{}}

RerunFetch ==
    \E ok \in BOOLEAN :
        \E failing \in Failures("none", ok) : Pass(widgets, "none", ok, failing)

ClickResetFetch ==
    /\ last_query_sig # NoSig
    /\ \E ok \in BOOLEAN :
           \E failing \in Failures("reset", ok) : Pass(widgets, "reset", ok, failing)

ClickPrevFetch ==
    /\ nav_shown
    /\ \E ok \in BOOLEAN :
           \E failing \in Failures("prev", ok) : Pass(widgets, "prev", ok, failing)

ClickNextFetch ==
    /\ nav_shown
    /\ Len(token_stack) < MaxStack
    /\ \E ok \in BOOLEAN :
           \E failing \in Failures("next", ok) : Pass(widgets, "next", ok, failing)

NextFetch == RerunFetch \/ ClickResetFetch \/ ClickPrevFetch \/ ClickNextFetch

SpecFetch == Init /\ [][NextFetch]_vars

\* --------------------------------------------- the extension filter by itself
\* Names the filter is tried on.
SampleNames ==
    { <<"P", "H", "O", "T", "O", ".", "J", "P", "G">>,
      <<"n", "o", "t", "e", "s", ".", "t", "x", "t">>,
      <<"a", ".", "p", "n", "g">>,
      <<"b", ".", "T", "i", "f", "f">>,
      <<"j", "p", "g">>,
      <<"c", ".", "g", "i", "f", ".", "b", "a", "k">>,
      <<".", "w", "e", "b", "p">> }

SamplePages ==
    UNION { [1..n -> SampleNames] : n \in 0..MaxPageLen }

InitFilter ==
    /\ InitSession
    /\ widgets = Base
    /\ \E pg \in SamplePages :
           filter = [page |-> pg, names |-> <<>>, done |-> FALSE]

\* Line 60 of list_image_blobs_page applied to the page.
ApplyFilter ==
    /\ ~filter.done
    /\ filter' = [filter EXCEPT !.names = ImageNames(filter.page), !.done = TRUE]
    /\ UNCHANGED <<continuation, token_stack, last_query_sig, widgets, nav_shown,
                   edits, click, outcome, sig_changed, pre_continuation, pre_stack,
                   chk_continuation, chk_stack, used_token, next_token,
                   fetch_failed, grid, phase, fwd_count, mark_continuation, mark_len>>

NextFilter == ApplyFilter

SpecFilter == InitFilter /\ [][NextFilter]_vars

\* ------------------------------------------------------------------- claims
\* The pass reached the page controls and the navigation code after them.
ReachedControls == outcome \in {"rendered", "listing_error", "exception"}

\* The pass made the listing call.
Listed == outcome \in {"rendered", "listing_error"}

\* The page a token resumes at, counted from 0, for the inputs in force.
PageOf(token) == StartOf(token) \div widgets.page_size

\* C1: after a pass started by "Reset paging" the continuation token is
\* None and the token stack is empty, as in a fresh session.
C1_ResetRestoresFresh ==
    click = "reset" => (continuation = Null /\ token_stack = <<>>)

\* C2: a Next pass made at the forward frontier (after the first run and
\* only Next passes) followed by a Prev pass restores the continuation token
\* and the length of the token stack to what they were before that Next pass.
C2_AdvanceRetreatInverse ==
    phase = "back1" =>
        (continuation = mark_continuation /\ Len(token_stack) = mark_len)

\* C3: in a walk of Next passes followed by Prev passes, every Prev pass
\* lists the page just before the page the pass before it listed, or the
\* first page again when that was the first page.
C3_RetreatOnePage ==
    [][ phase' \in {"back1", "back", "floor1", "floor2"} =>
            PageOf(used_token') =
                (IF PageOf(used_token) = 0 THEN 0 ELSE PageOf(used_token) - 1) ]_vars

\* C4: a pass whose listing call raises (with the query unchanged and Next,
\* Prev or no button clicked) leaves the continuation token and the token
\* stack as they were when it started.
C4_ListingFailureCommitsNothing ==
    (outcome = "listing_error" /\ ~sig_changed /\ click # "reset") =>
        (continuation = pre_continuation /\ token_stack = pre_stack)

\* C5: in a pass that sees the query signature differ from the stored one,
\* the continuation token is None and the token stack is empty right after
\* the signature check, before navigation and listing.
C5_QueryChangeWipesAll ==
    sig_changed => (chk_continuation = Null /\ chk_stack = <<>>)

\* C6: in a pass that sees a changed query signature and in which no button
\* is clicked, the listing call is made with the None continuation token,
\* whatever the pagination state was before.
C6_QueryChangeListsFromNull ==
    (sig_changed /\ click = "none" /\ Listed) => used_token = Null

C6_Witness ==
    /\ sig_changed /\ click = "none" /\ outcome = "rendered"
    /\ pre_continuation # Null /\ pre_stack # <<>>
    /\ used_token = Null

\* C7: a Prev pass that starts with continuation None and an empty token
\* stack raises nothing and leaves both as they are; so does any number of
\* such passes in a row from the start of the session.
C7_RetreatFloor ==
    (click = "prev" /\ pre_continuation = Null /\ pre_stack = <<>>) =>
        (outcome # "exception" /\ continuation = Null /\ token_stack = <<>>)

\* Two or more Prev passes in a row right after the first run.
C7_Witness ==
    /\ phase = "floor2" /\ click = "prev" /\ outcome = "rendered"
    /\ pre_continuation = Null /\ pre_stack = <<>>
    /\ continuation = Null /\ token_stack = <<>>

C9_NoAdvancePastLastPage ==
    [][ (outcome = "rendered" /\ next_token = Null) =>
            ~( /\ click' = "next" /\ outcome' = "rendered" /\ widgets' = widgets
               /\ Len(token_stack') = Len(token_stack) + 1
               /\ next_token' = Null /\ continuation' = Null ) ]_vars

\* C10: whenever the token stack is not empty its first element is None.
C10_FirstElementNull ==
    token_stack # <<>> => token_stack[1] = Null

C10_Witness ==
    /\ click = "prev" /\ outcome = "rendered" /\ Len(pre_stack) = 4
    /\ Len(token_stack) = 2 /\ token_stack[1] = Null /\ token_stack[2] # Null

\* The elements of a sequence.
Range(seq) == { seq[i] : i \in 1..Len(seq) }

\* C12: a pass whose inputs give no connection string and no account URL
\* makes no listing call and no Next/Prev change of the continuation token
\* or the token stack; it ends with the auth error (or, when the container
\* name is empty too, at the stop before it).
C12_ConfigErrorHaltsBeforeListing ==
    (outcome # "not_run" /\ widgets.connection_string = "" /\ widgets.account_url = "") =>
        /\ outcome \in {"auth_error", "no_container"}
        /\ widgets.container_name # "" => outcome = "auth_error"
        /\ ~Listed
        /\ continuation = chk_continuation
        /\ token_stack = pre_stack

\* The account URL is emptied and Next clicked, with tokens on the stack.
C12_Witness ==
    /\ outcome = "auth_error" /\ click = "next"
    /\ widgets.connection_string = "" /\ widgets.account_url = ""
    /\ pre_stack # <<>> /\ token_stack = pre_stack

\* C14: a Next pass that follows a pass which listed a page makes its
\* listing call with the next token that listing returned.
C14_NextListsFollowingPage ==
    [][ (outcome = "rendered" /\ click' = "next" /\ outcome' = "rendered"
         /\ widgets' = widgets) => used_token' = next_token ]_vars

\* C15: every token other than None passed to the listing call was issued
\* under the query signature in force for that call.
C15_NoStaleToken ==
    (Listed /\ used_token # Null) => used_token.sig = last_query_sig

\* C16: a Prev pass that follows a pass which listed the first page, with
\* the None token, lists with the None token again.
C16_NoPageBeforeFirst ==
    [][ (outcome = "rendered" /\ used_token = Null
         /\ click' = "prev" /\ outcome' = "rendered")
            => used_token' = Null ]_vars

\* C17: a pass in which Next is not clicked writes the next token of its
\* listing nowhere: it leaves a prefix of the token stack and a continuation
\* token that was in the session state before or is None.  A Next pass
\* stores the next token as continuation when its listing succeeds and not
\* otherwise, and pushes the token it found on the stack, not the next token.
C17_NextTokenCommittedOnlyOnNext ==
    /\ click # "next" =>
           /\ continuation \in ({pre_continuation, Null} \cup Range(pre_stack))
           /\ Len(token_stack) <= Len(pre_stack)
           /\ token_stack = SubSeq(pre_stack, 1, Len(token_stack))
           /\ (Listed /\ next_token \notin ({pre_continuation, Null} \cup Range(pre_stack)))
                  => (continuation # next_token /\ next_token \notin Range(token_stack))
    /\ (click = "next" /\ outcome = "rendered") => continuation = next_token
    /\ (click = "next" /\ outcome # "rendered") => continuation = chk_continuation
    /\ (click = "next" /\ ReachedControls) => token_stack = Append(pre_stack, chk_continuation)

\* A plain re-run on a later page: its listing returns a new next token and
\* the continuation token stays what it was.
C17_Witness ==
    /\ click = "none" /\ outcome = "rendered" /\ ~sig_changed
    /\ pre_continuation # Null /\ next_token # Null
    /\ next_token # pre_continuation /\ next_token \notin Range(pre_stack)
    /\ continuation = pre_continuation

\* C18: the pass that follows a Next pass which stored a None next token,
\* with no button clicked and the query unchanged, gets an empty page.
C18_NullTokenListsEmptyPage ==
    [][ (click = "next" /\ outcome = "rendered" /\ next_token = Null
         /\ click' = "none" /\ ~sig_changed' /\ outcome' = "rendered")
            => ListImageBlobsPage(widgets', used_token').names = <<>> ]_vars

\* C19: a pass with no button clicked and the query unchanged leaves the
\* continuation token and the token stack as they were and lists with the
\* token the pass before it listed with.
C19_RerenderStable ==
    [][ (outcome = "rendered" /\ click' = "none" /\ ~sig_changed'
         /\ outcome' = "rendered")
            => /\ continuation' = continuation
               /\ token_stack' = token_stack
               /\ used_token' = used_token ]_vars

\* The lower-cased name has one of the seven extensions as its tail.
HasImageExtension(name) ==
    \E k \in 1..Len(name) :
        [i \in 1..(Len(name) - k + 1) |-> LowerChar(name[k + i - 1])] \in IMAGE_EXTS

\* The positions of the page whose name has an image extension.
KeptPositions(page) == { i \in 1..Len(page) : HasImageExtension(page[i]) }

\* C13: the names the filter returns are the names of the page whose
\* lower-cased form ends with one of .jpg .jpeg .png .gif .webp .bmp .tiff,
\* each once per occurrence and in the order of the page; PHOTO.JPG is kept
\* and notes.txt is not.
C13_ExtensionFilter ==
    filter.done =>
        LET page == filter.page
            names == filter.names
            kept == KeptPositions(page)
        IN  /\ Len(names) = Cardinality(kept)
            /\ \A i \in kept :
                   names[Cardinality({ j \in kept : j <= i })] = page[i]
            /\ \A i \in 1..Len(page) :
                   /\ page[i] = <<"P", "H", "O", "T", "O", ".", "J", "P", "G">>
                          => page[i] \in Range(names)
                   /\ page[i] = <<"n", "o", "t", "e", "s", ".", "t", "x", "t">>
                          => page[i] \notin Range(names)

\* A page with PHOTO.JPG between two names that are dropped.
C13_Witness ==
    /\ filter.done
    /\ filter.page = << <<"n", "o", "t", "e", "s", ".", "t", "x", "t">>,
                        <<"P", "H", "O", "T", "O", ".", "J", "P", "G">>,
                        <<"j", "p", "g">> >>
    /\ filter.names = << <<"P", "H", "O", "T", "O", ".", "J", "P", "G">> >>

\* The names of the page the last pass listed.
PageNames == ListImageBlobsPage(widgets, used_token).names

\* The same pass run from the same session state with no download raising.
NoFailurePass ==
    LET sig == IF sig_changed THEN NoSig ELSE QuerySig(widgets)
    IN  RenderPass(Session(pre_continuation, pre_stack, sig), widgets, click, TRUE, {})

\* C11: in a pass where the download of an item raises, every name of the
\* page still gets its cell in the grid, an error for the item that failed
\* and the image for each other, and the pass leaves the continuation token
\* and the token stack that the same pass leaves when no download raises; a
\* Next pass stores the next token of its listing.
C11_FetchFailureIsolated ==
    fetch_failed # {} =>
        /\ outcome = "rendered"
        /\ Len(grid) = Len(PageNames)
        /\ \A i \in 1..Len(PageNames) :
               grid[i] = (IF PageNames[i] \in fetch_failed THEN "error" ELSE "image")
        /\ NoFailurePass.outcome = "rendered"
        /\ continuation = NoFailurePass.s.continuation
        /\ token_stack = NoFailurePass.s.token_stack
        /\ click = "next" => continuation = next_token

\* A Next pass on a page whose second item fails between two that load.
C11_Witness ==
    /\ fetch_failed # {} /\ click = "next" /\ outcome = "rendered"
    /\ Len(grid) >= 3
    /\ grid[1] = "image" /\ grid[2] = "error" /\ grid[3] = "image"
    /\ next_token # Null /\ continuation = next_token

====
